---- MODULE Spec2Model ----
(***************************************************************************)
(* Model of the tool-calling loop of src/agent/core/agent.py               *)
(* (ToolAgent.run_task), with the tool registry of src/agent/tools/base.py *)
(* and the chat router of src/agent/core/router.py.                        *)
(*                                                                         *)
(* A Python str is modelled as a sequence of tokens: SP (blanks inside a   *)
(* line), NL (a line break), FENCE (three backticks), W(x) (a run of other *)
(* characters, never a JSON document) and J(v) (the characters of one JSON *)
(* document whose parsed value is v).                                      *)
(***************************************************************************)
EXTENDS Integers, Sequences, FiniteSets, TLC

VARIABLES
    max_steps,              \* ToolAgent.max_steps
    tools,                  \* ToolRegistry._tools, in insertion order
    pc,                     \* "idle", "chat" (inside router.chat), "tool" (inside tool.run), "returned", "raised"
    messages,               \* run_task: messages
    invalid_json_attempts,  \* run_task: invalid_json_attempts
    step,                   \* run_task: iterations of the for loop completed
    tool_name,              \* run_task: tool_name of the tool call in flight
    tool_input,             \* run_task: tool_input of the tool call in flight
    result,                 \* the str run_task returned
    exit,                   \* the return statement or exception run_task ended with
    runs,                   \* run_task invocations started on this ToolAgent
    chat_calls,             \* router.chat calls issued by this invocation
    responses,              \* response.text values received by this invocation
    chat_errors,            \* router.chat calls of this invocation that raised
    tool_log,               \* tool.run calls completed by this invocation
    prev,                   \* what the previous invocation was fed and how it ended
    probe                   \* the last call of an operation outside run_task, with its result

vars == <<max_steps, tools, pc, messages, invalid_json_attempts, step, tool_name,
          tool_input, result, exit, runs, chat_calls, responses, chat_errors, tool_log,
          prev, probe>>

(***************************************************************************)
(* Bounds                                                                  *)
(***************************************************************************)
MaxBudget == 3
MaxRuns == 2

(***************************************************************************)
(* Strings                                                                 *)
(***************************************************************************)
SP == [k |-> "SP"]
NL == [k |-> "NL"]
FENCE == [k |-> "FENCE"]
W(x) == [k |-> "W", w |-> x]
J(val) == [k |-> "JSON", v |-> val]
\* a JSON document with a line boundary other than "\n" (U+2028, U+0085) inside a string
JLS(val) == [k |-> "JSONLS", v |-> val]

IsSpace(tok) == tok.k \in {"SP", "NL"}

\* str.lstrip()
LStrip(s) ==
    IF \A i \in 1..Len(s) : IsSpace(s[i]) THEN <<>>
    ELSE LET first == CHOOSE i \in 1..Len(s) :
                          /\ ~IsSpace(s[i])
                          /\ \A j \in 1..(i - 1) : IsSpace(s[j])
         IN  SubSeq(s, first, Len(s))

\* white space taken off the front only
StripLeading(s) == LStrip(s)

\* str.strip()
Strip(s) ==
    IF \A i \in 1..Len(s) : IsSpace(s[i]) THEN <<>>
    ELSE LET l == LStrip(s)
             last == CHOOSE i \in 1..Len(l) :
                         /\ ~IsSpace(l[i])
                         /\ \A j \in (i + 1)..Len(l) : IsSpace(l[j])
         IN  SubSeq(l, 1, last)

\* str.startswith("```")
StartsWithFence(s) == s # <<>> /\ s[1] = FENCE

\* a line boundary of str.splitlines
IsBreak(tok) == tok.k \in {"NL", "JSONLS"}

\* str.splitlines(): the boundary is dropped; a boundary inside a JSON document
\* leaves the two halves of the document on two lines
RECURSIVE SplitLines(_)
SplitLines(s) ==
    IF s = <<>> THEN <<>>
    ELSE IF \A i \in 1..Len(s) : ~IsBreak(s[i]) THEN <<s>>
    ELSE LET brk == CHOOSE i \in 1..Len(s) :
                        IsBreak(s[i]) /\ \A j \in 1..(i - 1) : ~IsBreak(s[j])
         IN  IF s[brk] = NL
             THEN <<SubSeq(s, 1, brk - 1)>> \o SplitLines(SubSeq(s, brk + 1, Len(s)))
             ELSE <<SubSeq(s, 1, brk - 1) \o <<W("{...")>> >>
                      \o SplitLines(<<W("...}")>> \o SubSeq(s, brk + 1, Len(s)))

\* "\n".join(lines)
RECURSIVE JoinLines(_)
JoinLines(lines) ==
    IF lines = <<>> THEN <<>>
    ELSE IF Len(lines) = 1 THEN lines[1]
    ELSE lines[1] \o <<NL>> \o JoinLines(Tail(lines))

(***************************************************************************)
(* JSON values, as json.loads builds them                                  *)
(***************************************************************************)
JNull == [t |-> "NoneType", s |-> <<W("None")>>]
JStr(x) == [t |-> "str", s |-> x]
JInt(x) == [t |-> "int", s |-> <<W(x)>>]
JBool(x) == [t |-> "bool", s |-> <<W(x)>>]
JList(x) == [t |-> "list", s |-> <<W(x)>>]
JMap(x) == [t |-> "dict", s |-> <<W(x)>>]
JObj(keys, tool, tinput, final_answer, error) ==
    [t |-> "dict", s |-> <<W("{...}")>>, keys |-> keys, tool |-> tool,
     tool_input |-> tinput, final_answer |-> final_answer, error |-> error]

\* str(value)
PyStr(v) == v.s

\* a test for None in place of the truth value
TruthyUnlessNone(v) == v.t # "NoneType"

\* bool(value)
Truthy(v) ==
    CASE v.t = "NoneType" -> FALSE
      [] v.t = "str" -> v.s # <<>>
      [] v.t = "int" -> v.s # <<W("0")>>
      [] v.t = "bool" -> v.s = <<W("True")>>
      [] v.t = "list" -> v.s # <<W("[]")>>
      [] v.t = "dict" -> v.s # <<W("{}")>>

\* dict.get(key, default)
Get(obj, key, default) == IF key \in obj.keys THEN obj[key] ELSE default

\* a parser that rejects every document other than an object
JsonLoadsObjectsOnly(s) ==
    LET core == Strip(s)
    IN  IF Len(core) = 1 /\ core[1].k \in {"JSON", "JSONLS"} /\ core[1].v.t = "dict"
        THEN [ok |-> TRUE, v |-> core[1].v]
        ELSE [ok |-> FALSE, v |-> JNull]

\* json.loads: the text must be one JSON document, blanks around it allowed
JsonLoads(s) ==
    LET core == Strip(s)
    IN  IF Len(core) = 1 /\ core[1].k \in {"JSON", "JSONLS"}
        THEN [ok |-> TRUE, v |-> core[1].v]
        ELSE [ok |-> FALSE, v |-> JNull]

(***************************************************************************)
(* Response parsing in run_task                                            *)
(***************************************************************************)
\* fence lines dropped only when the text has one at either end
StripFencesBoth(raw) ==
    LET lines == SplitLines(raw)
    IN  IF /\ StartsWithFence(raw)
           /\ Len(lines) >= 2
           /\ StartsWithFence(Strip(lines[Len(lines)]))
        THEN Strip(JoinLines(SubSeq(lines, 2, Len(lines) - 1)))
        ELSE raw

\* The text handed to json.loads: code fences wrapped around the JSON are dropped
StripFences(raw) ==
    IF StartsWithFence(raw)
    THEN LET lines0 == SplitLines(raw)
             lines1 == IF lines0 # <<>> /\ StartsWithFence(LStrip(lines0[1]))
                       THEN Tail(lines0) ELSE lines0
             lines2 == IF lines1 # <<>> /\ StartsWithFence(Strip(lines1[Len(lines1)]))
                       THEN SubSeq(lines1, 1, Len(lines1) - 1) ELSE lines1
         IN  Strip(JoinLines(lines2))
    ELSE raw

\* json.loads(raw_for_json) of a response text
Parse(text) == JsonLoads(StripFences(Strip(text)))

(***************************************************************************)
(* Tool registry                                                           *)
(***************************************************************************)
Tool(name, description) == [name |-> name, description |-> description]

ReadFileTool == Tool(<<W("read_file")>>, <<W("Read a text file from a safe workspace directory.")>>)
WriteFileTool == Tool(<<W("write_file")>>, <<W("Write text content to a file in the safe workspace directory.")>>)
ShellCommandTool == Tool(<<W("shell_command")>>, <<W("Execute a shell command (very restricted).")>>)

\* The registries build_tool_registry produces for the configurations considered
Registries == { <<ReadFileTool>>, <<ShellCommandTool, ReadFileTool, WriteFileTool>> }

\* A dict key must be hashable
Hashable(v) == v.t \notin {"list", "dict"}

\* a lookup that falls back on the first tool of the catalog for a name it
\* does not find
get_tool_or_first(reg, name) ==
    IF ~Hashable(name) THEN [status |-> "TypeError"]
    ELSE IF name.t = "str" /\ \E i \in 1..Len(reg) : reg[i].name = name.s
    THEN [status |-> "found", tool |-> reg[CHOOSE i \in 1..Len(reg) : reg[i].name = name.s]]
    ELSE IF reg # <<>> THEN [status |-> "found", tool |-> reg[1]]
    ELSE [status |-> "None"]

\* ToolRegistry.get_tool: TypeError for an unhashable name, else the tool or None
get_tool(reg, name) ==
    IF ~Hashable(name) THEN [status |-> "TypeError"]
    ELSE IF name.t = "str" /\ \E i \in 1..Len(reg) : reg[i].name = name.s
    THEN [status |-> "found", tool |-> reg[CHOOSE i \in 1..Len(reg) : reg[i].name = name.s]]
    ELSE [status |-> "None"]

\* a registration that adds an entry whether or not the name is taken
register_tool_append(reg, tool) == Append(reg, tool)

\* ToolRegistry.register_tool: self._tools[tool.name] = tool; a dict keeps the
\* position of a key that is assigned again
register_tool(reg, tool) ==
    IF \E i \in 1..Len(reg) : reg[i].name = tool.name
    THEN [i \in 1..Len(reg) |-> IF reg[i].name = tool.name THEN tool ELSE reg[i]]
    ELSE Append(reg, tool)

\* the values of the dict listed last to first
list_tools_reversed(reg) == [i \in 1..Len(reg) |-> reg[Len(reg) + 1 - i]]

\* ToolRegistry.list_tools
list_tools(reg) == reg

\* ToolAgent._build_tool_descriptions: one "- name: description" line per tool
RECURSIVE ToolLines(_)
ToolLines(ts) ==
    IF ts = <<>> THEN <<>>
    ELSE <<(<<W("- ")>> \o ts[1].name \o <<W(": ")>> \o ts[1].description)>> \o ToolLines(Tail(ts))

build_tool_descriptions(reg) == JoinLines(ToolLines(list_tools(reg)))

\* PromptManager.get_agent_system_prompt
AgentSystemPrompt == <<W("You are a tool-using AI agent. ...")>>

\* The outcomes of tool.run(tool_input): a str, or an exception.  Every tool
\* starts with tool_input.get(...), which fails on a non-mapping input.
ToolOutcomes(input) ==
    IF input.t # "dict"
    THEN { [ok |-> FALSE, exc |-> "AttributeError", text |-> <<W("object has no attribute 'get'")>>] }
    ELSE { [ok |-> TRUE, exc |-> "", text |-> <<W("tool output")>>],
           [ok |-> FALSE, exc |-> "ValueError", text |-> <<W("invalid literal for int()")>>] }

(***************************************************************************)
(* Messages                                                                *)
(***************************************************************************)
Msg(role, content) == [role |-> role, content |-> content]

\* the trimmed text appended in place of the text returned
AppendAssistantStripped(msgs, text) == Append(msgs, Msg("assistant", Strip(text)))

\* messages.append({"role": "assistant", "content": response.text})
AppendAssistant(msgs, text) == Append(msgs, Msg("assistant", text))

\* the append left out before the loop goes on
AppendUserDropped(msgs, content) == msgs

\* the user message written over the last message of the conversation
AppendUserOverLast(msgs, content) ==
    Append(SubSeq(msgs, 1, Len(msgs) - 1), Msg("user", content))

\* messages.append({"role": "user", "content": content})
AppendUser(msgs, content) == Append(msgs, Msg("user", content))

SystemPrompt(reg) ==
    AgentSystemPrompt \o <<NL, NL, W("Available tools:"), NL>> \o build_tool_descriptions(reg)

InvalidJsonMessage ==
    <<W("Your previous message was not valid JSON. You MUST respond with JSON ONLY as described in the system prompt. Do not include any extra text.")>>

ToolNotAvailable(name) == <<W("Tool '")>> \o PyStr(name) \o <<W("' is not available.")>>

ToolRaisedError(name, text) == <<W("Tool '")>> \o PyStr(name) \o <<W("' raised an error: ")>> \o text

\* the report of a tool result that leaves the input out
ToolResultMessageNoInput(name, input, tool_result) ==
    <<W("Result from tool '")>> \o PyStr(name) \o <<W("':"), NL>> \o tool_result

ToolResultMessage(name, input, tool_result) ==
    <<W("Result from tool '")>> \o PyStr(name) \o <<W("' with input ")>> \o PyStr(input)
        \o <<W(":"), NL>> \o tool_result

\* the conversation kept from the invocation before, the new task added to it
SeedMessagesKept(reg, task) ==
    IF messages = <<>>
    THEN <<Msg("system", SystemPrompt(reg)), Msg("user", task)>>
    ELSE Append(messages, Msg("user", task))

\* messages = [system, user(task)] at the start of run_task
SeedMessages(reg, task) == <<Msg("system", SystemPrompt(reg)), Msg("user", task)>>

MaxStepsMessage == <<W("Maximum tool-calling steps reached without a final answer.")>>

(***************************************************************************)
(* ToolAgent.run_task                                                      *)
(***************************************************************************)
\* The number of invalid JSON responses after which run_task gives up
InvalidJsonLimit == 2

\* range(n) taken one step too far
InRangeInclusive(i, n) == i <= n

\* the counter kept from the invocation before
LeftoverAttempts == invalid_json_attempts

\* invalid_json_attempts = 0 at the start of run_task
InitialAttempts == 0

\* for _ in range(n): the body runs for i = 0 .. n-1
InRange(i, n) == i < n

\* giving up at the first invalid response
GiveUpAtOnce(attempts) == attempts >= 1

\* giving up only after the limit has been exceeded
GiveUpLate(attempts) == attempts > InvalidJsonLimit

\* if invalid_json_attempts >= 2
GiveUp(attempts) == attempts >= InvalidJsonLimit

\* the check for a null tool left out
IsNoneNever(v) == FALSE

\* tool_name is None
IsNone(v) == v.t = "NoneType"

\* parsed.get("tool_input", {}) without the `or {}`
ToolInputOfGiven(parsed) == Get(parsed, "tool_input", JMap("{}"))

\* parsed.get("tool_input", {}) or {}
ToolInputOf(parsed) ==
    LET given == Get(parsed, "tool_input", JMap("{}"))
    IN  IF Truthy(given) THEN given ELSE JMap("{}")

\* an except clause that names one exception type only
CaughtValueErrorOnly(exc) == exc = "ValueError"

\* except Exception: the exceptions a tool raises that run_task catches
Caught(exc) == exc \in {"AttributeError", "ValueError", "TypeError", "KeyError", "OSError"}

Outcome(kind, msgs, attempts, res, ex, tname, tinput) ==
    [kind |-> kind, msgs |-> msgs, attempts |-> attempts, result |-> res,
     exit |-> ex, tool_name |-> tname, tool_input |-> tinput]

\* One pass through the loop body from the return of router.chat to the next
\* return, raise, continue or tool.run call
HandleResponse(reg, msgs0, attempts, text) ==
    LET msgs == AppendAssistant(msgs0, text)
        raw == Strip(text)
        loaded == JsonLoads(StripFences(raw))
        parsed == loaded.v
    IN  IF ~loaded.ok
        THEN IF GiveUp(attempts + 1)
             THEN Outcome("return", msgs, attempts + 1, raw, "bad_json", JNull, JNull)
             ELSE Outcome("continue", AppendUser(msgs, InvalidJsonMessage),
                          attempts + 1, <<>>, "", JNull, JNull)
        ELSE IF parsed.t # "dict"
        THEN Outcome("return", msgs, attempts, raw, "not_dict", JNull, JNull)
        ELSE IF "tool" \notin parsed.keys
        THEN IF "final_answer" \in parsed.keys /\ Truthy(parsed.final_answer)
             THEN Outcome("return", msgs, attempts, PyStr(parsed.final_answer),
                          "final_answer_no_tool", JNull, JNull)
             ELSE IF "error" \in parsed.keys
             THEN Outcome("return", msgs, attempts, PyStr(parsed.error), "error", JNull, JNull)
             ELSE Outcome("return", msgs, attempts, raw, "raw_no_tool", JNull, JNull)
        ELSE IF IsNone(parsed.tool)
        THEN IF Truthy(Get(parsed, "final_answer", JNull))
             THEN Outcome("return", msgs, attempts, PyStr(parsed.final_answer),
                          "final_answer", JNull, JNull)
             ELSE Outcome("return", msgs, attempts, raw, "raw_no_final_answer", JNull, JNull)
        ELSE LET tool == get_tool(reg, parsed.tool)
             IN  IF tool.status = "TypeError"
                 THEN Outcome("raise", msgs, attempts, <<>>, "TypeError", parsed.tool, ToolInputOf(parsed))
                 ELSE IF tool.status = "None"
                 THEN Outcome("continue",
                              AppendUser(msgs, ToolNotAvailable(parsed.tool)),
                              attempts, <<>>, "", parsed.tool, ToolInputOf(parsed))
                 ELSE Outcome("tool", msgs, attempts, <<>>, "", parsed.tool, ToolInputOf(parsed))

\* The head of the for loop, reached with i iterations completed: the next
\* router.chat call, or the return after the loop
LoopHead(msgs, i, calls) ==
    /\ messages' = msgs
    /\ step' = i
    /\ IF InRange(i, max_steps)
       THEN /\ pc' = "chat"
            /\ chat_calls' = calls + 1
            /\ result' = <<>>
            /\ exit' = ""
       ELSE /\ pc' = "returned"
            /\ chat_calls' = calls
            /\ result' = MaxStepsMessage
            /\ exit' = "max_steps"

(***************************************************************************)
(* Inputs                                                                  *)
(***************************************************************************)
Tasks == { <<W("list the files")>>, <<W("read"), SP, W("notes.txt")>> }

FinalHi == JObj({"tool", "final_answer"}, JNull, JNull, JStr(<<W("hi")>>), JNull)
CallRead == JObj({"tool", "tool_input"}, JStr(<<W("read_file")>>), JMap("{'path': 'a'}"), JNull, JNull)
CallReadBadInput == JObj({"tool", "tool_input"}, JStr(<<W("read_file")>>), JStr(<<W("abc")>>), JNull, JNull)
CallWriteWithAnswer == JObj({"tool", "final_answer"}, JStr(<<W("write_file")>>), JNull, JStr(<<W("hi")>>), JNull)
CallUnknown == JObj({"tool", "tool_input"}, JStr(<<W("nonexistent_tool")>>), JMap("{}"), JNull, JNull)
CallInt == JObj({"tool"}, JInt("5"), JNull, JNull, JNull)
CallList == JObj({"tool", "tool_input"}, JList("['read_file']"), JMap("{}"), JNull, JNull)

\* The texts the backend answers with
Responses ==
    { <<W("not json")>>,
      <<SP, W("not"), SP, W("json"), NL>>,
      <<J(FinalHi)>>,
      <<NL, FENCE, W("json"), NL, J(FinalHi), NL, FENCE, NL>>,
      <<J(JObj({"tool", "final_answer"}, JNull, JNull, JStr(<<>>), JNull))>>,
      <<J(JObj({"error"}, JNull, JNull, JNull, JStr(<<W("boom")>>)))>>,
      <<J(JObj({}, JNull, JNull, JNull, JNull))>>,
      <<J(JList("[1]")), SP>>,
      <<J(CallRead)>>,
      <<J(CallReadBadInput)>>,
      <<FENCE, NL, J(CallWriteWithAnswer), NL, FENCE>>,
      <<J(CallUnknown)>>,
      <<J(CallInt)>>,
      <<J(CallList)>> }

(***************************************************************************)
(* Actions                                                                 *)
(***************************************************************************)
NoPrev == [runs |-> 0]
NoProbe == [op |-> "none"]

Init ==
    /\ max_steps \in -1..MaxBudget
    /\ tools \in Registries
    /\ pc = "idle"
    /\ messages = <<>>
    /\ invalid_json_attempts = 0
    /\ step = 0
    /\ tool_name = JNull
    /\ tool_input = JNull
    /\ result = <<>>
    /\ exit = ""
    /\ runs = 0
    /\ chat_calls = 0
    /\ responses = <<>>
    /\ chat_errors = 0
    /\ tool_log = <<>>
    /\ prev = NoPrev
    /\ probe = NoProbe

\* run_task is called: the conversation is seeded and the loop is entered
StartRun(task) ==
    /\ pc \in {"idle", "returned", "raised"}
    /\ runs < MaxRuns
    /\ runs' = runs + 1
    /\ invalid_json_attempts' = InitialAttempts
    /\ tool_name' = JNull
    /\ tool_input' = JNull
    /\ responses' = <<>>
    /\ chat_errors' = 0
    /\ tool_log' = <<>>
    /\ LoopHead(SeedMessages(tools, task), 0, 0)
    /\ UNCHANGED <<max_steps, tools, probe>>

RunTask(task) == StartRun(task) /\ UNCHANGED prev

\* router.chat returns response.text = text
ChatReturns(text) ==
    /\ pc = "chat"
    /\ \E o \in {HandleResponse(tools, messages, invalid_json_attempts, text)} :
           /\ responses' = Append(responses, text)
           /\ invalid_json_attempts' = o.attempts
           /\ CASE o.kind = "return" ->
                     /\ pc' = "returned"
                     /\ messages' = o.msgs
                     /\ result' = o.result
                     /\ exit' = o.exit
                     /\ UNCHANGED <<step, chat_calls, tool_name, tool_input>>
                [] o.kind = "raise" ->
                     /\ pc' = "raised"
                     /\ messages' = o.msgs
                     /\ exit' = o.exit
                     /\ tool_name' = o.tool_name
                     /\ tool_input' = o.tool_input
                     /\ UNCHANGED <<step, chat_calls, result>>
                [] o.kind = "continue" ->
                     /\ LoopHead(o.msgs, step + 1, chat_calls)
                     /\ tool_name' = IF IsNone(o.tool_name) THEN tool_name ELSE o.tool_name
                     /\ tool_input' = IF IsNone(o.tool_name) THEN tool_input ELSE o.tool_input
                [] o.kind = "tool" ->
                     /\ pc' = "tool"
                     /\ messages' = o.msgs
                     /\ tool_name' = o.tool_name
                     /\ tool_input' = o.tool_input
                     /\ UNCHANGED <<step, chat_calls, result, exit>>
    /\ UNCHANGED <<max_steps, tools, runs, chat_errors, tool_log, prev, probe>>

\* a ProviderError swallowed by the loop, which goes on to its next iteration
ChatFailsSwallowed ==
    /\ pc = "chat"
    /\ chat_errors' = chat_errors + 1
    /\ LoopHead(messages, step + 1, chat_calls)
    /\ UNCHANGED <<max_steps, tools, invalid_json_attempts, tool_name, tool_input,
                   runs, responses, tool_log, prev, probe>>

\* router.chat raises ProviderError
ChatFails ==
    /\ pc = "chat"
    /\ pc' = "raised"
    /\ exit' = "ProviderError"
    /\ chat_errors' = chat_errors + 1
    /\ UNCHANGED <<max_steps, tools, messages, invalid_json_attempts, step, tool_name,
                   tool_input, result, runs, chat_calls, responses, tool_log, prev, probe>>

\* one execution of tool.run: the tool, its input and its outcome, and the
\* router.chat calls made and returned when it ran
ToolRun(o) ==
    [name |-> tool_name, input |-> tool_input, ok |-> o.ok, text |-> o.text,
     calls |-> chat_calls, returned |-> Len(responses) + chat_errors]

\* tool.run(tool_input) is called and the loop stays where it is, so that the
\* handler is run again
RunToolAgain(o) ==
    /\ pc = "tool"
    /\ o \in ToolOutcomes(tool_input)
    /\ tool_log' = Append(tool_log, ToolRun(o))
    /\ UNCHANGED <<max_steps, tools, pc, messages, invalid_json_attempts, step, tool_name,
                   tool_input, result, exit, runs, chat_calls, responses, chat_errors,
                   prev, probe>>

\* the budget looked at before the handler is called: when no router.chat call
\* is left the tool is not run and the budget text is returned at once
RunToolIfBudget(o) ==
    /\ pc = "tool"
    /\ o \in ToolOutcomes(tool_input)
    /\ IF InRange(step + 1, max_steps)
       THEN /\ tool_log' = Append(tool_log, ToolRun(o))
            /\ LoopHead(AppendUser(messages,
                                   ToolResultMessage(tool_name, tool_input,
                                       IF o.ok THEN o.text
                                       ELSE ToolRaisedError(tool_name, o.text))),
                        step + 1, chat_calls)
       ELSE /\ LoopHead(messages, step + 1, chat_calls)
            /\ UNCHANGED tool_log
    /\ UNCHANGED <<max_steps, tools, invalid_json_attempts, tool_name, tool_input,
                   runs, responses, chat_errors, prev, probe>>

\* tool.run(tool_input) returns or raises; the rest of the loop body follows
RunTool(o) ==
    /\ pc = "tool"
    /\ o \in ToolOutcomes(tool_input)
    /\ tool_log' = Append(tool_log, ToolRun(o))
    /\ IF o.ok \/ Caught(o.exc)
       THEN LET tool_result == IF o.ok THEN o.text ELSE ToolRaisedError(tool_name, o.text)
            IN  LoopHead(AppendUser(messages,
                                    ToolResultMessage(tool_name, tool_input, tool_result)),
                         step + 1, chat_calls)
       ELSE /\ pc' = "raised"
            /\ exit' = o.exc
            /\ UNCHANGED <<messages, step, chat_calls, result>>
    /\ UNCHANGED <<max_steps, tools, invalid_json_attempts, tool_name, tool_input,
                   runs, responses, chat_errors, prev, probe>>

Next ==
    \/ \E task \in Tasks : RunTask(task)
    \/ \E text \in Responses : ChatReturns(text)
    \/ ChatFails
    \/ \E o \in ToolOutcomes(tool_input) : RunTool(o)

Spec == Init /\ [][Next]_vars

(***************************************************************************)
(* Vocabulary of the properties                                            *)
(***************************************************************************)
\* The Protocol Decision a response text is classified as
Decision(text) ==
    LET loaded == Parse(text)
    IN  IF ~loaded.ok THEN "Malformed"
        ELSE IF loaded.v.t # "dict" THEN "Opaque"
        ELSE IF "tool" \in loaded.v.keys /\ ~IsNone(loaded.v.tool) THEN "ToolCall"
        ELSE IF Truthy(Get(loaded.v, "final_answer", JNull)) THEN "FinalAnswer"
        ELSE IF "tool" \notin loaded.v.keys /\ "error" \in loaded.v.keys THEN "FinalAnswer"
        ELSE "Opaque"

\* The tool a ToolCall response names
ToolOf(text) == Parse(text).v.tool

\* name is the name of a tool of the catalog
Registered(reg, name) == name.t = "str" /\ \E i \in 1..Len(reg) : reg[i].name = name.s

\* sub occurs in the string s
Contains(s, sub) == \E i \in 1..(Len(s) - Len(sub) + 1) : SubSeq(s, i, i + Len(sub) - 1) = sub

Max0(n) == IF n > 0 THEN n ELSE 0

Last(seq) == seq[Len(seq)]

\* run_task is between its call and its return or raise
Running == pc \in {"chat", "tool"}

(***************************************************************************)
(* C1: an invocation of run_task performs at most max(max_steps, 0)        *)
(* router.chat calls, whatever the responses and tool outcomes are.        *)
(***************************************************************************)
C1_AtMostBudgetCalls == chat_calls <= Max0(max_steps)

\* the whole budget is spent: the last budgeted call was made and the run returned
C1_Witness ==
    /\ max_steps = MaxBudget
    /\ chat_calls = max_steps
    /\ pc = "returned"
    /\ exit = "max_steps"

(***************************************************************************)
(* C2: when the first response is a JSON object {"tool": null,             *)
(* "final_answer": X} with X a non-empty string, run_task returns X after  *)
(* exactly one router.chat call, runs no tool, and the conversation ends   *)
(* with the assistant message of that response.                            *)
(***************************************************************************)
IsNullToolFinal(text) ==
    LET loaded == Parse(text)
    IN  /\ loaded.ok
        /\ loaded.v.t = "dict"
        /\ {"tool", "final_answer"} \subseteq loaded.v.keys
        /\ loaded.v.tool = JNull
        /\ loaded.v.final_answer.t = "str"
        /\ loaded.v.final_answer.s # <<>>

C2_FinalAnswerFirst ==
    (Len(responses) >= 1 /\ IsNullToolFinal(responses[1])) =>
        /\ pc = "returned"
        /\ result = Parse(responses[1]).v.final_answer.s
        /\ chat_calls = 1
        /\ tool_log = <<>>
        /\ Len(messages) = 3
        /\ messages[3] = Msg("assistant", responses[1])

C2_Witness ==
    /\ max_steps >= 1
    /\ Len(responses) = 1
    /\ IsNullToolFinal(responses[1])
    /\ result = <<W("hi")>>

(***************************************************************************)
(* C3: when the first two responses are both Malformed, run_task returns   *)
(* after exactly two router.chat calls with the raw text (the stripped     *)
(* response.text) of the second one; no third call is made.                *)
(***************************************************************************)
C3_TwoMalformedStop ==
    (Len(responses) >= 2 /\ Decision(responses[1]) = "Malformed"
                         /\ Decision(responses[2]) = "Malformed") =>
        /\ pc = "returned"
        /\ exit = "bad_json"
        /\ chat_calls = 2
        /\ Len(responses) = 2
        /\ result = Strip(responses[2])

\* two malformed responses with budget left for a third call
C3_Witness ==
    /\ max_steps >= 3
    /\ Len(responses) = 2
    /\ Decision(responses[1]) = "Malformed"
    /\ Decision(responses[2]) = "Malformed"
    /\ pc = "returned"

(***************************************************************************)
(* C4: the invalid-response counter counts consecutive Malformed responses *)
(* only: a ToolCall response resets it to zero, and run_task gives up on   *)
(* malformed output only when the last two responses were both Malformed.  *)
(***************************************************************************)
C4_ConsecutiveMalformedOnly ==
    exit = "bad_json" =>
        /\ Len(responses) >= 2
        /\ Decision(responses[Len(responses)]) = "Malformed"
        /\ Decision(responses[Len(responses) - 1]) = "Malformed"

(***************************************************************************)
(* C5: whatever the responses and the tools do, run_task returns a str or  *)
(* raises the backend's ProviderError; no other exception leaves it.       *)
(***************************************************************************)
C5_OnlyBackendErrorEscapes == pc = "raised" => exit = "ProviderError"

(***************************************************************************)
(* C6: when the handler of a registered tool raises, run_task catches the  *)
(* failure, appends one user message holding the error text and goes on to *)
(* the next iteration (the next router.chat call, or the return after the  *)
(* loop when the budget is spent); nothing is raised to the caller.        *)
(***************************************************************************)
C6_ToolFailureContained ==
    [][ (Len(tool_log') = Len(tool_log) + 1 /\ ~Last(tool_log').ok) =>
            /\ Registered(tools, tool_name)
            /\ messages' = Append(messages, Last(messages'))
            /\ Last(messages').role = "user"
            /\ Contains(Last(messages').content, Last(tool_log').text)
            /\ step' = step + 1
            /\ chat_errors' = chat_errors
            /\ IF step' < max_steps
               THEN pc' = "chat" /\ chat_calls' = chat_calls + 1
               ELSE pc' = "returned" /\ exit' = "max_steps" ]_vars

\* a handler failed on a non-mapping tool_input and the next router.chat call is under way
C6_Witness ==
    /\ tool_log # <<>>
    /\ ~Last(tool_log).ok
    /\ Last(tool_log).input.t # "dict"
    /\ pc = "chat"
    /\ Last(messages).role = "user"
    /\ Contains(Last(messages).content, Last(tool_log).text)

(***************************************************************************)
(* C7: a ToolCall whose name is not in the catalog runs no tool, is not    *)
(* counted as malformed and does not end the loop: the assistant message   *)
(* and one user message saying the tool is unavailable are appended, one   *)
(* iteration is used up, and the next router.chat call (if the budget      *)
(* allows one) gets that conversation.                                     *)
(***************************************************************************)
UnknownToolCall(text) == Decision(text) = "ToolCall" /\ ~Registered(tools, ToolOf(text))

C7_UnknownToolContinues ==
    [][ (Len(responses') = Len(responses) + 1 /\ UnknownToolCall(Last(responses'))) =>
            /\ messages' = messages \o
                   << Msg("assistant", Last(responses')),
                      Msg("user", ToolNotAvailable(ToolOf(Last(responses')))) >>
            /\ tool_log' = tool_log
            /\ invalid_json_attempts' = invalid_json_attempts
            /\ step' = step + 1
            /\ IF step' < max_steps
               THEN pc' = "chat" /\ chat_calls' = chat_calls + 1
               ELSE pc' = "returned" /\ exit' = "max_steps" ]_vars

(***************************************************************************)
(* C8: run_task returns the budget-exhausted message exactly when all the  *)
(* budgeted iterations completed without a terminating response: with      *)
(* max_steps >= 1 and every response a ToolCall it returns the message     *)
(* right after the last budgeted router.chat call, and with max_steps <= 0 *)
(* it returns it without any router.chat or tool.run call.                 *)
(***************************************************************************)
C8_SentinelExactly ==
    /\ exit = "max_steps" =>
           /\ pc = "returned"
           /\ result = MaxStepsMessage
           /\ step = Max0(max_steps)
           /\ chat_calls = Max0(max_steps)
           /\ Len(responses) = Max0(max_steps)
    /\ (/\ pc \in {"returned", "raised"}
        /\ max_steps >= 1
        /\ Len(responses) = max_steps
        /\ \A k \in 1..Len(responses) : Decision(responses[k]) = "ToolCall")
           => /\ pc = "returned"
              /\ exit = "max_steps"
              /\ result = MaxStepsMessage
              /\ chat_calls = max_steps
    /\ (pc # "idle" /\ max_steps <= 0) =>
           /\ pc = "returned"
           /\ exit = "max_steps"
           /\ result = MaxStepsMessage
           /\ chat_calls = 0
           /\ tool_log = <<>>

(***************************************************************************)
(* C9: the conversation of an invocation is one system message followed by *)
(* messages alternating user, assistant, user, ... starting with the task; *)
(* every conversation passed to router.chat ends with a user message.      *)
(***************************************************************************)
C9_Alternation ==
    pc # "idle" =>
        /\ Len(messages) >= 2
        /\ messages[1] = Msg("system", SystemPrompt(tools))
        /\ messages[2].content \in Tasks
        /\ \A i \in 2..Len(messages) :
               messages[i].role = IF i % 2 = 0 THEN "user" ELSE "assistant"
        /\ pc = "chat" => Last(messages).role = "user"

\* a third router.chat call under way, after a retry and a tool result
C9_Witness ==
    /\ pc = "chat"
    /\ chat_calls = 3
    /\ Len(messages) = 6
    /\ messages[4].content = InvalidJsonMessage
    /\ tool_log # <<>>

(***************************************************************************)
(* C10: a ProviderError raised by router.chat is not caught or retried:    *)
(* run_task raises it at once, and the invocation makes no further         *)
(* router.chat call, tool.run call or append to the conversation.          *)
(***************************************************************************)
C10_BackendErrorPropagates ==
    [][ /\ chat_errors' > chat_errors =>
               /\ pc = "chat"
               /\ pc' = "raised"
               /\ exit' = "ProviderError"
               /\ UNCHANGED <<messages, chat_calls, tool_log, responses, result, step>>
        /\ (pc = "raised" /\ runs' = runs) =>
               UNCHANGED <<pc, exit, messages, chat_calls, tool_log, responses, chat_errors>>
      ]_vars

\* the second router.chat call failed, after a tool had run
C10_Witness ==
    /\ pc = "raised"
    /\ exit = "ProviderError"
    /\ chat_errors = 1
    /\ chat_calls = 2
    /\ Len(tool_log) = 1

(***************************************************************************)
(* Response classification on its own: a response body and the same body   *)
(* wrapped in a code fence are classified as run_task classifies them.     *)
(***************************************************************************)
\* the body wrapped in a leading fence line (with or without a language tag)
\* and a trailing fence line
Fenced(tag, body) == <<FENCE>> \o tag \o <<NL>> \o body \o <<NL, FENCE>>

FenceTags == { <<>>, <<W("json")>> }

OpaqueList == JList("[1]")
NullTool == JObj({"tool"}, JNull, JNull, JNull, JNull)
ErrorOnly == JObj({"error"}, JNull, JNull, JNull, JStr(<<W("boom")>>))

Documents ==
    { <<J(FinalHi)>>, <<J(CallRead)>>, <<J(CallWriteWithAnswer)>>, <<J(CallInt)>>,
      <<J(OpaqueList)>>, <<J(NullTool)>>, <<J(ErrorOnly)>>, <<JLS(FinalHi)>>,
      <<W("junk")>>, <<W("Sure:"), SP, J(FinalHi)>>, <<>> }

\* the documents, bare, padded with blanks, behind a fence line of their own,
\* or before one
Bodies ==
    UNION { { d, <<SP>> \o d, d \o <<SP>>, <<NL>> \o d \o <<NL>>,
              <<FENCE, W("json"), NL>> \o d, d \o <<NL, FENCE>> }
            : d \in Documents }

\* The Protocol Decision of a response text with its content: the tool name and
\* input of a ToolCall, the answer of a FinalAnswer, the text returned for Opaque
ProtocolDecision(text) ==
    LET variant == Decision(text)
    IN  CASE variant = "ToolCall" ->
                 [variant |-> variant, tool |-> ToolOf(text),
                  tool_input |-> ToolInputOf(Parse(text).v), text |-> <<>>]
          [] variant \in {"FinalAnswer", "Opaque"} ->
                 [variant |-> variant, tool |-> JNull, tool_input |-> JNull,
                  text |-> HandleResponse(<<>>, <<>>, 0, text).result]
          [] variant = "Malformed" ->
                 [variant |-> variant, tool |-> JNull, tool_input |-> JNull, text |-> <<>>]

\* a body and its fenced form are classified
Classify(tag, body) ==
    /\ pc = "idle"
    /\ probe' = [op |-> "classify", tag |-> tag, body |-> body,
                 raw_for_json |-> StripFences(Strip(body)),
                 fenced_for_json |-> StripFences(Strip(Fenced(tag, body))),
                 plain |-> ProtocolDecision(body),
                 fenced |-> ProtocolDecision(Fenced(tag, body))]
    /\ UNCHANGED <<max_steps, tools, pc, messages, invalid_json_attempts, step, tool_name,
                   tool_input, result, exit, runs, chat_calls, responses, chat_errors,
                   tool_log, prev>>

NextFence == \E tag \in FenceTags, body \in Bodies : Classify(tag, body)

SpecFence == Init /\ [][NextFence]_vars

(***************************************************************************)
(* C11: a body wrapped in a leading fence line and a trailing fence line   *)
(* yields the same Protocol Decision as the body alone: the same variant   *)
(* and the same content (tool name and input, answer text, returned text). *)
(***************************************************************************)
C11_FenceTransparent == probe.op = "classify" => probe.fenced = probe.plain

(***************************************************************************)
(* Two invocations on one ToolAgent, the second fed the backend responses  *)
(* of the first once more; the tool handlers are free in both.             *)
(***************************************************************************)
\* what an invocation that has ended was fed and how it ended
Ended ==
    [runs |-> runs, task |-> messages[2].content, responses |-> responses,
     chat_errors |-> chat_errors, tool_log |-> tool_log, pc |-> pc, result |-> result,
     exit |-> exit, len |-> Len(messages), attempts |-> invalid_json_attempts,
     chat_calls |-> chat_calls]

\* run_task is called a second time on the same agent
RunTaskAgain(task) ==
    /\ runs = 1
    /\ StartRun(task)
    /\ prev' = Ended

\* the backend returns in the second invocation what it returned in the first
ChatReplays ==
    /\ prev # NoPrev
    /\ Len(responses) < Len(prev.responses)
    /\ ChatReturns(prev.responses[Len(responses) + 1])

\* the backend fails in the second invocation where it failed in the first
ChatFailsAgain ==
    /\ prev # NoPrev
    /\ Len(responses) = Len(prev.responses)
    /\ prev.chat_errors > 0
    /\ ChatFails

NextReplay ==
    \/ \E task \in Tasks : runs = 0 /\ RunTask(task)
    \/ \E text \in Responses : prev = NoPrev /\ ChatReturns(text)
    \/ prev = NoPrev /\ ChatFails
    \/ \E o \in ToolOutcomes(tool_input) : RunTool(o)
    \/ \E task \in Tasks : RunTaskAgain(task)
    \/ ChatReplays
    \/ ChatFailsAgain

SpecReplay == Init /\ [][NextReplay]_vars

(***************************************************************************)
(* C12: determinism.  An invocation of the same task that is fed the       *)
(* responses of an earlier invocation ends having consumed exactly those   *)
(* responses, with the same output and a conversation of the same length,  *)
(* whatever the tool handlers returned or raised in either invocation; it  *)
(* never asks the backend for a response beyond that sequence.             *)
(***************************************************************************)
C12_Deterministic ==
    (prev # NoPrev /\ prev.task = messages[2].content) =>
        /\ pc \in {"returned", "raised"} =>
               /\ responses = prev.responses
               /\ chat_errors = prev.chat_errors
               /\ pc = prev.pc
               /\ exit = prev.exit
               /\ result = prev.result
               /\ Len(messages) = prev.len
        /\ pc = "chat" =>
               \/ Len(responses) < Len(prev.responses)
               \/ prev.chat_errors > 0

\* both invocations ran a tool after the same responses, the handler returned in
\* one and raised in the other, and both went on to the same final answer
C12_Witness ==
    /\ prev # NoPrev
    /\ prev.task = messages[2].content
    /\ pc = "returned"
    /\ exit = "final_answer"
    /\ responses = prev.responses
    /\ Len(tool_log) >= 1
    /\ Len(tool_log) = Len(prev.tool_log)
    /\ tool_log[1].ok /\ ~prev.tool_log[1].ok

MaxRegistrations == 3

\* a second tool object with the name of ReadFileTool
ReadFileTool2 == Tool(<<W("read_file")>>, <<W("Read a file (replacement).")>>)

ToolPool == { ReadFileTool, ReadFileTool2, WriteFileTool, ShellCommandTool }

LookupNames == { t.name : t \in ToolPool } \cup { <<W("web_search")>> }

\* the tools registered so far, in the order of the register_tool calls
Registrations == IF probe.op = "none" THEN <<>> ELSE probe.log

InitRegistry ==
    /\ max_steps \in 0..1
    /\ tools = <<>>
    /\ pc = "idle"
    /\ messages = <<>>
    /\ invalid_json_attempts = 0
    /\ step = 0
    /\ tool_name = JNull
    /\ tool_input = JNull
    /\ result = <<>>
    /\ exit = ""
    /\ runs = 0
    /\ chat_calls = 0
    /\ responses = <<>>
    /\ chat_errors = 0
    /\ tool_log = <<>>
    /\ prev = NoPrev
    /\ probe = NoProbe

\* registry.register_tool(tool)
RegisterTool(tool) ==
    /\ pc \in {"idle", "returned", "raised"}
    /\ Len(Registrations) < MaxRegistrations
    /\ tools' = register_tool(tools, tool)
    /\ probe' = [op |-> "register_tool", log |-> Append(Registrations, tool)]
    /\ UNCHANGED <<max_steps, pc, messages, invalid_json_attempts, step, tool_name,
                   tool_input, result, exit, runs, chat_calls, responses, chat_errors,
                   tool_log, prev>>

\* registry.get_tool(name)
GetTool(name) ==
    /\ pc \in {"idle", "returned", "raised"}
    /\ probe' = [op |-> "get_tool", log |-> Registrations, name |-> name,
                 out |-> get_tool(tools, JStr(name))]
    /\ UNCHANGED <<max_steps, tools, pc, messages, invalid_json_attempts, step, tool_name,
                   tool_input, result, exit, runs, chat_calls, responses, chat_errors,
                   tool_log, prev>>

NextRegistry ==
    \/ \E tool \in ToolPool : RegisterTool(tool)
    \/ \E name \in LookupNames : GetTool(name)
    \/ \E task \in Tasks : RunTask(task)
    \/ ChatFails

SpecRegistry == InitRegistry /\ [][NextRegistry]_vars

\* the names of a sequence of tools, each once, in the order of first appearance
RECURSIVE FirstNames(_)
FirstNames(log) ==
    IF log = <<>> THEN <<>>
    ELSE LET front == FirstNames(SubSeq(log, 1, Len(log) - 1))
             name == log[Len(log)].name
         IN  IF \E i \in 1..Len(front) : front[i] = name THEN front ELSE Append(front, name)

\* the tool registered last under the name
LatestNamed(log, name) ==
    log[CHOOSE i \in 1..Len(log) :
            log[i].name = name /\ \A j \in (i + 1)..Len(log) : log[j].name # name]

(***************************************************************************)
(* C14: the system message run_task sends holds, after the agent prompt    *)
(* and the "Available tools:" header, one line "- name: description" for   *)
(* every tool registered at the time of the call, each registered name     *)
(* once, in the order in which the names were registered.                  *)
(***************************************************************************)
C14_PromptListsCatalog ==
    [][runs' = runs + 1 =>
          LET lines == SplitLines(messages'[1].content)
              names == FirstNames(Registrations)
          IN  /\ messages'[1].role = "system"
              /\ Len(lines) = 3 + Len(names)
              /\ lines[3] = <<W("Available tools:")>>
              /\ \A i \in 1..Len(names) :
                     lines[3 + i] = <<W("- ")>> \o names[i] \o <<W(": ")>>
                                        \o LatestNamed(Registrations, names[i]).description
      ]_vars

\* run_task was called with three tools registered, one of them registered again
\* after another tool
C14_Witness ==
    /\ pc = "chat"
    /\ Len(Registrations) = 3
    /\ Len(tools) = 2
    /\ Registrations[1].name = Registrations[3].name
    /\ Registrations[1] # Registrations[3]
    /\ Len(SplitLines(messages[1].content)) = 5

(***************************************************************************)
(* C15: register_tool replaces by name, the last write wins: get_tool(n)   *)
(* returns the tool registered last under n, None when no tool was ever    *)
(* registered under n; the catalog never has two entries of one name;      *)
(* registering a tool twice leaves the catalog as registering it once.     *)
(***************************************************************************)
C15_ReplaceByName ==
    /\ probe.op = "get_tool" =>
           probe.out = IF \E i \in 1..Len(probe.log) : probe.log[i].name = probe.name
                       THEN [status |-> "found", tool |-> LatestNamed(probe.log, probe.name)]
                       ELSE [status |-> "None"]
    /\ \A i, j \in 1..Len(tools) : tools[i].name = tools[j].name => i = j
    /\ \A i \in 1..Len(Registrations) :
           LET before == IF i = 1 THEN <<>> ELSE SubSeq(Registrations, 1, i - 1)
               reg0 == IF before = <<>> THEN <<>>
                       ELSE [k \in 1..Len(FirstNames(before)) |->
                                 LatestNamed(before, FirstNames(before)[k])]
               tool == Registrations[i]
           IN  register_tool(register_tool(reg0, tool), tool) = register_tool(reg0, tool)

\* a name registered twice with two tools was looked up and the second came back
C15_Witness ==
    /\ probe.op = "get_tool"
    /\ probe.out = [status |-> "found", tool |-> ReadFileTool2]
    /\ Len(probe.log) = 3
    /\ probe.log[1] = ReadFileTool
    /\ probe.log[3] = ReadFileTool2
    /\ Len(tools) = 2

(***************************************************************************)
(* AskAgent.ask: one backend call, the text handed back                    *)
(***************************************************************************)
\* PromptManager.get_ask_system_prompt
AskSystemPrompt == <<W("You are a helpful assistant. ...")>>

\* the answer taken out of the text the way run_task takes it out
AskReturnParsed(text) == HandleResponse(<<>>, <<>>, 0, text).result

\* return response.text
AskReturn(text) == text

\* ask is called: the two messages are built and router.chat is called
Ask(question) ==
    /\ pc \in {"idle", "returned", "raised"}
    /\ runs < MaxRuns
    /\ runs' = runs + 1
    /\ messages' = <<Msg("system", AskSystemPrompt), Msg("user", question)>>
    /\ pc' = "chat"
    /\ chat_calls' = 1
    /\ responses' = <<>>
    /\ chat_errors' = 0
    /\ result' = <<>>
    /\ exit' = ""
    /\ UNCHANGED <<max_steps, tools, invalid_json_attempts, step, tool_name, tool_input,
                   tool_log, prev, probe>>

\* router.chat returns response.text = text, which ask returns
AskChatReturns(text) ==
    /\ pc = "chat"
    /\ responses' = Append(responses, text)
    /\ result' = AskReturn(text)
    /\ pc' = "returned"
    /\ exit' = "ask"
    /\ UNCHANGED <<max_steps, tools, messages, invalid_json_attempts, step, tool_name,
                   tool_input, runs, chat_calls, chat_errors, tool_log, prev, probe>>

NextAsk ==
    \/ \E question \in Tasks : Ask(question)
    \/ \E text \in Responses : AskChatReturns(text)
    \/ ChatFails

SpecAsk == Init /\ [][NextAsk]_vars

(***************************************************************************)
(* C16: ask makes exactly one backend call, with the conversation          *)
(* [system, user(question)], and returns the backend's text unchanged; it  *)
(* runs no tool and calls the backend no second time, whatever the text.   *)
(***************************************************************************)
C16_AskReturnsText ==
    /\ chat_calls <= 1
    /\ tool_log = <<>>
    /\ tool_name = JNull
    /\ runs > 0 =>
           /\ Len(messages) = 2
           /\ messages[1] = Msg("system", AskSystemPrompt)
           /\ messages[2].role = "user"
           /\ messages[2].content \in Tasks
           /\ chat_calls = 1
    /\ pc = "returned" => responses # <<>> /\ result = responses[1] /\ Len(responses) = 1
    /\ pc = "raised" => responses = <<>> /\ exit = "ProviderError"

\* the backend answered with a well-formed call of a registered tool and ask
\* returned that text
C16_Witness ==
    /\ pc = "returned"
    /\ exit = "ask"
    /\ result = <<J(CallRead)>>
    /\ Decision(result) = "ToolCall"
    /\ Registered(tools, ToolOf(result))
    /\ tool_log = <<>>

(***************************************************************************)
(* Fairness: every router.chat call returns or fails, and every tool.run   *)
(* call returns or raises.  Nothing obliges the caller to call run_task.   *)
(***************************************************************************)
BackendAnswers == (\E text \in Responses : ChatReturns(text)) \/ ChatFails

ToolAnswers == \E o \in ToolOutcomes(tool_input) : RunTool(o)

SpecLive == Spec /\ WF_vars(BackendAnswers) /\ WF_vars(ToolAnswers)

(***************************************************************************)
(* C17: every invocation of run_task eventually returns or raises when     *)
(* every backend call and every tool call answers, and the loop never      *)
(* makes more iterations than the step budget.                             *)
(***************************************************************************)
C17_Terminates ==
    /\ Running ~> (pc \in {"returned", "raised"})
    /\ [](step <= Max0(max_steps) /\ (Running => step < max_steps))

\* an invocation went through every iteration of the largest budget, each with a
\* tool call, and returned
C17_Witness ==
    /\ pc = "returned"
    /\ max_steps = MaxBudget
    /\ step = MaxBudget
    /\ Len(tool_log) = MaxBudget
    /\ Len(messages) = 2 + 2 * MaxBudget

(***************************************************************************)
(* ReadFileTool.run and WriteFileTool.run.  A path is a sequence of        *)
(* segments, a segment a sequence of characters; the string of an absolute *)
(* path is "/" and the segment, for each of its segments.                  *)
(***************************************************************************)
MaxPathLen == 3

DotDot == <<".", ".">>

\* self.root_dir = os.path.abspath(root_dir): /h/ws
RootDir == << <<"h">>, <<"w", "s">> >>

Segments == { DotDot, <<"a">>, <<"h">>, <<"w", "s">>, <<"w", "s", "2">> }

RECURSIVE SeqsUpTo(_, _)
SeqsUpTo(S, n) ==
    IF n = 0 THEN { <<>> }
    ELSE LET shorter == SeqsUpTo(S, n - 1)
         IN  shorter \cup { Append(p, x) : p \in shorter, x \in S }

\* the `path` inputs: absolute or relative, "" included
PathInputs == [absolute : BOOLEAN, segs : SeqsUpTo(Segments, MaxPathLen)]

\* os.path.join(root, path): an absolute path replaces the root
PathJoin(root, path) == IF path.absolute THEN path.segs ELSE root \o path.segs

\* os.path.abspath of an absolute path: ".." removes the segment before it,
\* and does nothing at "/"
RECURSIVE AbsPath(_)
AbsPath(segs) ==
    IF segs = <<>> THEN <<>>
    ELSE LET front == AbsPath(SubSeq(segs, 1, Len(segs) - 1))
             last == segs[Len(segs)]
         IN  IF last = DotDot
             THEN IF front = <<>> THEN <<>> ELSE SubSeq(front, 1, Len(front) - 1)
             ELSE Append(front, last)

\* the characters of an absolute path
RECURSIVE PathStr(_)
PathStr(segs) ==
    IF segs = <<>> THEN <<>>
    ELSE <<"/">> \o segs[1] \o PathStr(Tail(segs))

\* str.startswith
StartsWith(s, prefix) == Len(prefix) <= Len(s) /\ SubSeq(s, 1, Len(prefix)) = prefix

\* abs_path.startswith(self.root_dir)
Allowed(abs_path, root) == StartsWith(PathStr(abs_path), PathStr(root))

\* what run does with the path: the kind of text returned, and the file
\* operation performed ("none", "read", "write" with its makedirs)
FileRun(tool, path, exists, overwrite) ==
    LET abs_path == AbsPath(PathJoin(RootDir, path))
    IN  IF path.segs = <<>> /\ ~path.absolute
        THEN [kind |-> "required", effect |-> "none", abs_path |-> abs_path]
        ELSE IF ~Allowed(abs_path, RootDir)
        THEN [kind |-> "denied", effect |-> "none", abs_path |-> abs_path]
        ELSE IF tool = "read_file"
        THEN IF ~exists
             THEN [kind |-> "missing", effect |-> "none", abs_path |-> abs_path]
             ELSE [kind |-> "content", effect |-> "read", abs_path |-> abs_path]
        ELSE IF exists /\ ~overwrite
             THEN [kind |-> "exists", effect |-> "none", abs_path |-> abs_path]
             ELSE [kind |-> "wrote", effect |-> "write", abs_path |-> abs_path]

\* tool.run({"path": path, ...}) of a file tool, on a file system where the
\* resolved path exists or does not
RunFileTool(tool, path, exists, overwrite) ==
    /\ pc = "idle"
    /\ probe = NoProbe
    /\ probe' = [op |-> tool, path |-> path, exists |-> exists, overwrite |-> overwrite,
                 out |-> FileRun(tool, path, exists, overwrite)]
    /\ UNCHANGED <<max_steps, tools, pc, messages, invalid_json_attempts, step, tool_name,
                   tool_input, result, exit, runs, chat_calls, responses, chat_errors,
                   tool_log, prev>>

NextFiles ==
    /\ probe = NoProbe
    /\ \E tool \in {"read_file", "write_file"}, path \in PathInputs,
          exists \in BOOLEAN, overwrite \in BOOLEAN :
           RunFileTool(tool, path, exists, overwrite)

SpecFiles == Init /\ [][NextFiles]_vars

\* the path is the root directory or a descendant of it
InsideRoot(abs_path) ==
    Len(RootDir) <= Len(abs_path) /\ SubSeq(abs_path, 1, Len(RootDir)) = RootDir

(***************************************************************************)
(* C18: for every path input whose resolved absolute path is not the root  *)
(* directory or a descendant of it, the file tools return the access-      *)
(* denied text and read, write and create nothing.                         *)
(***************************************************************************)
C18_ConfinedToRoot ==
    (probe.op \in {"read_file", "write_file"}
        /\ ~(probe.path.segs = <<>> /\ ~probe.path.absolute)
        /\ ~InsideRoot(probe.out.abs_path))
    => (probe.out.kind = "denied" /\ probe.out.effect = "none")

(***************************************************************************)
(* ShellCommandTool.run.  A command line is a sequence of blank-separated  *)
(* words: program names and arguments, the operators ";", "&&", "|", and   *)
(* words that hold a command substitution "$(prog)".                       *)
(***************************************************************************)
MaxWords == 3

Word(w) == [k |-> "word", w |-> w]
Op(w) == [k |-> "op", w |-> w]
Subst(prog) == [k |-> "subst", w |-> prog]

ShellWords ==
    { Word("ls"), Word("echo"), Word("rm"), Op(";"), Op("&&"), Op("|"), Subst("rm") }

CommandLines == SeqsUpTo(ShellWords, MaxWords)

\* the allowed_commands of the configurations considered; [] means no restriction
AllowedLists == { {"ls", "echo"}, {"ls"}, {} }

\* the text of a word as shlex.split returns it
WordText(tok) == IF tok.k = "subst" THEN "$(" \o tok.w \o ")" ELSE tok.w

\* the programs /bin/sh starts for the line: the first word of each simple
\* command, and the program of each substitution
Programs(command) ==
    { command[i].w : i \in { j \in 1..Len(command) :
                               \/ command[j].k = "subst"
                               \/ /\ command[j].k = "word"
                                  /\ (j = 1 \/ command[j - 1].k = "op") } }

\* what run does with the command: the kind of text returned and the
\* programs the shell was given to run
ShellRun(allowed_commands, command) ==
    IF command = <<>>
    THEN [kind |-> "required", ran |-> {}, shell |-> FALSE]
    ELSE LET base == WordText(command[1])
         IN  IF allowed_commands # {} /\ base \notin allowed_commands
             THEN [kind |-> "not allowed", ran |-> {}, shell |-> FALSE]
             ELSE [kind |-> "output", ran |-> Programs(command), shell |-> TRUE]

\* tool.run({"command": command}) of a shell tool with the given whitelist
RunShellTool(allowed_commands, command) ==
    /\ pc = "idle"
    /\ probe = NoProbe
    /\ probe' = [op |-> "shell_command", allowed_commands |-> allowed_commands,
                 command |-> command, out |-> ShellRun(allowed_commands, command)]
    /\ UNCHANGED <<max_steps, tools, pc, messages, invalid_json_attempts, step, tool_name,
                   tool_input, result, exit, runs, chat_calls, responses, chat_errors,
                   tool_log, prev>>

NextShell ==
    /\ probe = NoProbe
    /\ \E allowed_commands \in AllowedLists, command \in CommandLines :
           RunShellTool(allowed_commands, command)

SpecShell == Init /\ [][NextShell]_vars

(***************************************************************************)
(* C19: with a non-empty allowed_commands, a command line is passed to the *)
(* shell only if every program it would run is in allowed_commands; any    *)
(* other line gets the "not allowed" text and nothing is run.              *)
(***************************************************************************)
C19_OnlyWhitelisted ==
    (probe.op = "shell_command" /\ probe.allowed_commands # {} /\ probe.command # <<>>) =>
        IF Programs(probe.command) \subseteq probe.allowed_commands
        THEN probe.out.ran \subseteq probe.allowed_commands
        ELSE probe.out.kind = "not allowed" /\ ~probe.out.shell

\* the contents of the assistant messages of a conversation, in order
AssistantContents(msgs) ==
    LET IsAssistant(m) == m.role = "assistant"
        kept == SelectSeq(msgs, IsAssistant)
    IN  [i \in 1..Len(kept) |-> kept[i].content]

(***************************************************************************)
(* C20: every text the backend returned is in the conversation as an       *)
(* assistant message holding the text as returned, in the order of the     *)
(* calls, whatever the text was classified as and however the invocation   *)
(* went on or ended.                                                       *)
(***************************************************************************)
C20_ResponsesRecorded ==
    /\ AssistantContents(messages) = responses
    /\ (pc \in {"returned", "raised"} /\ responses # <<>> /\ exit \notin {"max_steps", "ProviderError"})
           => Last(messages) = Msg("assistant", Last(responses))

\* a Malformed response, an unknown-tool call and a second, blank-padded Malformed
\* response that ended the invocation: the padded text is in the conversation
\* while the text returned is the trimmed one
C20_Witness ==
    /\ pc = "returned"
    /\ exit = "bad_json"
    /\ Len(responses) = 3
    /\ Decision(responses[1]) = "Malformed"
    /\ UnknownToolCall(responses[2])
    /\ responses[3] = <<SP, W("not"), SP, W("json"), NL>>
    /\ result # responses[3]
    /\ Last(messages).content = responses[3]

(***************************************************************************)
(* C21: the first Malformed response of an invocation does not end it with *)
(* that text: the assistant text and one corrective user message are       *)
(* appended, and if budget remains the next backend call is made with the  *)
(* conversation ending in these two messages; with no budget left the      *)
(* invocation returns the budget-exhausted text.                           *)
(***************************************************************************)
C21_FirstMalformedRetried ==
    [][(/\ Len(responses') = Len(responses) + 1
        /\ Decision(Last(responses')) = "Malformed"
        /\ \A i \in 1..Len(responses) : Decision(responses[i]) # "Malformed") =>
           /\ messages' = messages \o <<Msg("assistant", Last(responses')),
                                        Msg("user", InvalidJsonMessage)>>
           /\ IF step + 1 < max_steps
              THEN pc' = "chat" /\ chat_calls' = chat_calls + 1
              ELSE pc' = "returned" /\ result' = MaxStepsMessage /\ chat_calls' = chat_calls
      ]_vars

\* the first Malformed response came after a tool call, and the next backend call
\* is under way with the malformed text and the corrective message last
C21_Witness ==
    /\ pc = "chat"
    /\ Len(responses) = 2
    /\ Decision(responses[1]) = "ToolCall"
    /\ Decision(responses[2]) = "Malformed"
    /\ chat_calls = 3
    /\ messages[Len(messages) - 1] = Msg("assistant", responses[2])
    /\ Last(messages) = Msg("user", InvalidJsonMessage)

(***************************************************************************)
(* C22: every backend round trip takes one unit of the step budget,        *)
(* whatever it leads to: the k-th backend call is made with k - 1 round    *)
(* trips completed and k - 1 < max_steps, the budget-exhausted text is     *)
(* returned after exactly max_steps round trips, and with a budget of 1 a  *)
(* single Malformed response ends in that text with no second call.        *)
(***************************************************************************)
C22_OneUnitPerRoundTrip ==
    /\ pc = "chat" => step < max_steps /\ chat_calls = step + 1 /\ Len(responses) = step
    /\ pc = "tool" => step < max_steps /\ chat_calls = step + 1 /\ Len(responses) = step + 1
    /\ (runs > 0 /\ exit = "max_steps") =>
           /\ pc = "returned"
           /\ step = Max0(max_steps)
           /\ chat_calls = Max0(max_steps)
           /\ Len(responses) = Max0(max_steps)
    /\ (max_steps = 1 /\ Len(responses) = 1 /\ Decision(responses[1]) = "Malformed") =>
           pc = "returned" /\ result = MaxStepsMessage /\ chat_calls = 1

\* a Malformed retry, an unknown tool and a failed tool each took one unit of a
\* budget of three: the third round trip was the last
C22_Witness ==
    /\ max_steps = 3
    /\ pc = "returned"
    /\ exit = "max_steps"
    /\ chat_calls = 3
    /\ Decision(responses[1]) = "Malformed"
    /\ UnknownToolCall(responses[2])
    /\ Len(tool_log) = 1
    /\ ~tool_log[1].ok

\* the trimmed text begins with a fence line
LeadingFence(text) == StartsWithFence(Strip(text))

\* the trimmed text has a last line, other than its first, that is a fence line
TrailingFence(text) ==
    LET lines == SplitLines(Strip(text))
    IN  Len(lines) >= 2 /\ StartsWithFence(Strip(lines[Len(lines)]))

(***************************************************************************)
(* C23: fence lines are dropped before parsing only when the trimmed text  *)
(* has a leading fence line and a trailing fence line; any other text is   *)
(* handed to the parser as it stands.                                      *)
(***************************************************************************)
C23_StripNeedsBothFences ==
    probe.op = "classify" =>
        /\ (LeadingFence(probe.body) /\ TrailingFence(probe.body))
               \/ probe.raw_for_json = Strip(probe.body)
        /\ probe.fenced_for_json # Strip(Fenced(probe.tag, probe.body))

(***************************************************************************)
(* C23, as the code has it: a trimmed text that begins with a fence marker *)
(* loses its first line, and then its last line too if that line, trimmed, *)
(* begins with a fence marker; what is left is joined with "\n" and        *)
(* trimmed.  A text that does not begin with a fence marker, a trailing    *)
(* fence line or not, is handed to the parser as it stands.                *)
(***************************************************************************)
C23_EachFenceLineDropped ==
    probe.op = "classify" =>
        LET raw == Strip(probe.body)
            lines == SplitLines(raw)
            n == Len(lines)
        IN  /\ ~LeadingFence(probe.body) => probe.raw_for_json = raw
            /\ (LeadingFence(probe.body) /\ ~TrailingFence(probe.body)) =>
                   probe.raw_for_json = Strip(JoinLines(SubSeq(lines, 2, n)))
            /\ (LeadingFence(probe.body) /\ TrailingFence(probe.body)) =>
                   probe.raw_for_json = Strip(JoinLines(SubSeq(lines, 2, n - 1)))
            /\ probe.fenced_for_json =
                   LET inner == SplitLines(Strip(Fenced(probe.tag, probe.body)))
                   IN  Strip(JoinLines(SubSeq(inner, 2, Len(inner) - 1)))

\* a final answer behind a leading fence line, with no trailing fence line, was
\* parsed with the fence line dropped
C23_Witness ==
    /\ probe.op = "classify"
    /\ probe.body = <<FENCE, W("json"), NL, J(FinalHi)>>
    /\ probe.raw_for_json = <<J(FinalHi)>>
    /\ probe.plain.variant = "FinalAnswer"

(***************************************************************************)
(* One pass through the loop body on its own: a response text built from a *)
(* JSON document is handled as run_task handles it, with zero or one       *)
(* invalid response counted before.                                        *)
(***************************************************************************)
ToolValues ==
    { JNull, JStr(<<W("read_file")>>), JStr(<<>>), JStr(<<W("nonexistent_tool")>>),
      JInt("5"), JBool("False"), JList("['read_file']") }
InputValues ==
    { JNull, JMap("{}"), JMap("{'path': 'a'}"), JStr(<<W("abc")>>), JList("[]"), JInt("0") }
AnswerValues == { JNull, JStr(<<>>), JStr(<<W("hi")>>), JInt("5"), JInt("0") }
ErrorValues == { JNull, JStr(<<>>), JStr(<<W("boom")>>) }

\* the JSON objects over the four keys run_task looks at
ObjectDocs ==
    { JObj(keys,
           IF "tool" \in keys THEN t ELSE JNull,
           IF "tool_input" \in keys THEN i ELSE JNull,
           IF "final_answer" \in keys THEN a ELSE JNull,
           IF "error" \in keys THEN e ELSE JNull) :
        keys \in SUBSET {"tool", "tool_input", "final_answer", "error"},
        t \in ToolValues, i \in InputValues, a \in AnswerValues, e \in ErrorValues }

\* JSON documents that are not objects
OtherDocs == { JList("[1]"), JStr(<<W("str")>>), JInt("5"), JBool("True"), JNull }

Forms == {"bare", "padded", "fenced"}

\* the response text that carries the document
TextOf(form, doc) ==
    CASE form = "bare" -> <<J(doc)>>
      [] form = "padded" -> <<SP, J(doc), NL>>
      [] form = "fenced" -> <<NL, FENCE, W("json"), NL, J(doc), NL, FENCE, SP>>

\* router.chat has returned the text in a first iteration, with `attempts` invalid
\* responses counted so far
HandleOnce(task, attempts, form, doc) ==
    /\ pc = "idle"
    /\ probe = NoProbe
    /\ probe' = [op |-> "handle", msgs |-> SeedMessages(tools, task), attempts |-> attempts,
                 form |-> form, doc |-> doc, text |-> TextOf(form, doc),
                 out |-> HandleResponse(tools, SeedMessages(tools, task), attempts,
                                        TextOf(form, doc))]
    /\ UNCHANGED <<max_steps, tools, pc, messages, invalid_json_attempts, step, tool_name,
                   tool_input, result, exit, runs, chat_calls, responses, chat_errors,
                   tool_log, prev>>

\* response texts that json.loads rejects: words, blank and empty text, with
\* white space around them and with code fences at both ends or at one
InvalidTexts ==
    { <<W("not"), SP, W("json")>>,
      <<SP, NL, W("oops"), SP>>,
      <<NL, FENCE, W("json"), NL, W("oops"), NL, FENCE, SP>>,
      <<FENCE, NL, W("oops"), NL>>,
      <<SP, W("oops"), NL, FENCE>>,
      <<J(FinalHi), SP, W("done")>>,
      <<SP, NL>>,
      <<>> }

\* router.chat has returned a text that is not JSON
HandleText(task, attempts, text) ==
    /\ pc = "idle"
    /\ probe = NoProbe
    /\ probe' = [op |-> "handle_text", msgs |-> SeedMessages(tools, task),
                 attempts |-> attempts, text |-> text,
                 out |-> HandleResponse(tools, SeedMessages(tools, task), attempts, text)]
    /\ UNCHANGED <<max_steps, tools, pc, messages, invalid_json_attempts, step, tool_name,
                   tool_input, result, exit, runs, chat_calls, responses, chat_errors,
                   tool_log, prev>>

NextHandle ==
    /\ probe = NoProbe
    /\ \/ \E task \in Tasks, attempts \in 0..(InvalidJsonLimit - 1), form \in Forms,
             doc \in ObjectDocs \cup OtherDocs :
              HandleOnce(task, attempts, form, doc)
       \/ \E task \in Tasks, attempts \in 0..(InvalidJsonLimit - 1), text \in InvalidTexts :
              HandleText(task, attempts, text)

SpecHandle == Init /\ [][NextHandle]_vars

\* a JSON value that is not null, "", 0, false, [] or {}
NonEmpty(v) ==
    v \notin {JNull, JStr(<<>>), JInt("0"), JBool("False"), JList("[]"), JMap("{}")}

\* the response ended the invocation with the text res: nothing but the assistant
\* message was appended and the invalid-response counter is as it was
EndedWith(res) ==
    /\ probe.out.kind = "return"
    /\ probe.out.result = res
    /\ probe.out.attempts = probe.attempts
    /\ probe.out.msgs = Append(probe.msgs, Msg("assistant", probe.text))

(***************************************************************************)
(* C24: a response that parses to an object without a `tool` key ends the  *)
(* invocation at once: with the final_answer value if the key is there and *)
(* non-empty, else with the error value if an error key is there (empty or *)
(* not), else with the raw response text.                                  *)
(***************************************************************************)
C24_NoToolKey ==
    (probe.op = "handle" /\ probe.doc.t = "dict" /\ "tool" \notin probe.doc.keys) =>
        IF "final_answer" \in probe.doc.keys /\ NonEmpty(probe.doc.final_answer)
        THEN EndedWith(probe.doc.final_answer.s)
        ELSE IF "error" \in probe.doc.keys
        THEN EndedWith(probe.doc.error.s)
        ELSE EndedWith(Strip(probe.text))

\* an empty final_answer beside an error: the error text was the answer
C24_Witness ==
    /\ probe.op = "handle"
    /\ probe.doc = JObj({"final_answer", "error"}, JNull, JNull, JStr(<<>>), JStr(<<W("boom")>>))
    /\ probe.out.kind = "return"
    /\ probe.out.result = <<W("boom")>>

(***************************************************************************)
(* C25: a response that parses to an object whose `tool` key is there with *)
(* the value null ends the invocation at once: with the final_answer value *)
(* if it is there and non-empty, else with the raw response text; an error *)
(* key changes nothing, no invalid response is counted and no corrective   *)
(* message is appended.                                                    *)
(***************************************************************************)
C25_NullTool ==
    (/\ probe.op = "handle"
     /\ probe.doc.t = "dict"
     /\ "tool" \in probe.doc.keys
     /\ probe.doc.tool = JNull) =>
        IF "final_answer" \in probe.doc.keys /\ NonEmpty(probe.doc.final_answer)
        THEN EndedWith(probe.doc.final_answer.s)
        ELSE EndedWith(Strip(probe.text))

\* a null tool, no final answer and an error key, in a fenced text after one
\* invalid response: the trimmed text came back, fences included
C25_Witness ==
    /\ probe.op = "handle"
    /\ probe.attempts = 1
    /\ probe.form = "fenced"
    /\ probe.doc = JObj({"tool", "error"}, JNull, JNull, JNull, JStr(<<W("boom")>>))
    /\ probe.out.kind = "return"
    /\ probe.out.result = Strip(probe.text)
    /\ probe.out.result # <<J(probe.doc)>>

(***************************************************************************)
(* C26: a response that parses as JSON but not to an object ends the       *)
(* invocation at once with the raw response text: no invalid response is   *)
(* counted, no corrective message is appended, no further call is made.    *)
(***************************************************************************)
C26_NotAnObject ==
    (probe.op = "handle" /\ probe.doc.t # "dict") => EndedWith(Strip(probe.text))

\* a padded JSON null after one invalid response: the counter stayed at one and
\* the text "null" came back
C26_Witness ==
    /\ probe.op = "handle"
    /\ probe.attempts = 1
    /\ probe.form = "padded"
    /\ probe.doc = JNull
    /\ probe.out.kind = "return"
    /\ probe.out.attempts = 1
    /\ probe.out.result = <<J(JNull)>>

(***************************************************************************)
(* C27: a response that parses to an object whose `tool` value is not null *)
(* is a tool call and never ends the invocation with an answer, whatever   *)
(* final_answer or error it carries and also for the tool name "": a       *)
(* registered tool is run with the tool_input value, or with an empty      *)
(* mapping when tool_input is absent, null or empty; any other name is     *)
(* looked up and not found.                                                *)
(***************************************************************************)
C27_NonNullToolIsCall ==
    (/\ probe.op = "handle"
     /\ probe.doc.t = "dict"
     /\ "tool" \in probe.doc.keys
     /\ probe.doc.tool # JNull) =>
        /\ probe.out.kind \in {"tool", "continue", "raise"}
        /\ probe.out.attempts = probe.attempts
        /\ probe.out.tool_name = probe.doc.tool
        /\ probe.out.tool_input =
               IF "tool_input" \in probe.doc.keys /\ NonEmpty(probe.doc.tool_input)
               THEN probe.doc.tool_input
               ELSE JMap("{}")
        /\ Registered(tools, probe.doc.tool) <=> probe.out.kind = "tool"
        /\ probe.out.kind = "tool" =>
               probe.out.msgs = Append(probe.msgs, Msg("assistant", probe.text))
        /\ probe.out.kind = "continue" =>
               probe.out.msgs = probe.msgs \o
                   <<Msg("assistant", probe.text),
                     Msg("user", ToolNotAvailable(probe.doc.tool))>>

\* a call of a registered tool with a null tool_input, a non-empty final_answer
\* and an error: the tool is to be run with an empty mapping
C27_Witness ==
    /\ probe.op = "handle"
    /\ probe.doc = JObj({"tool", "tool_input", "final_answer", "error"},
                        JStr(<<W("read_file")>>), JNull, JStr(<<W("hi")>>),
                        JStr(<<W("boom")>>))
    /\ probe.out.kind = "tool"
    /\ probe.out.tool_input = JMap("{}")

(***************************************************************************)
(* C28: for a ToolCall that names a registered tool the handler is run     *)
(* exactly once with the input supplied, and exactly one user message is   *)
(* appended, which contains the tool name, that input and the text of the  *)
(* result (the text returned, or the text of the error caught); the next   *)
(* router.chat call, if there is one, is made with the conversation that   *)
(* ends with this message.                                                 *)
(***************************************************************************)
\* the responses of this invocation that call a registered tool
RegisteredCalls ==
    { i \in 1..Len(responses) :
        /\ Decision(responses[i]) = "ToolCall"
        /\ Registered(tools, ToolOf(responses[i])) }

\* one handler run per registered ToolCall, the pending one not yet counted
RunOncePerCall ==
    Cardinality(RegisteredCalls) = Len(tool_log) + (IF pc = "tool" THEN 1 ELSE 0)

\* the step that leaves the tool: one handler run, one user message
ToolStepReported ==
    pc = "tool" =>
        /\ tool_log' = Append(tool_log, Last(tool_log'))
        /\ Last(tool_log').name = tool_name
        /\ Last(tool_log').input = tool_input
        /\ Len(messages') = Len(messages) + 1
        /\ SubSeq(messages', 1, Len(messages)) = messages
        /\ Last(messages').role = "user"
        /\ Contains(Last(messages').content, PyStr(tool_name))
        /\ Contains(Last(messages').content, PyStr(tool_input))
        /\ Contains(Last(messages').content, Last(tool_log').text)
        /\ pc' \in {"chat", "returned"}
        /\ pc' = "chat" <=> chat_calls' = chat_calls + 1

C28_ToolRunOnceAndReported == [](RunOncePerCall) /\ [][ToolStepReported]_vars

\* the handler of read_file raised, the error was caught and reported, and the
\* next call is pending with the conversation that ends with the report
C28_Witness ==
    /\ pc = "chat"
    /\ Len(tool_log) = 1
    /\ ~tool_log[1].ok
    /\ tool_log[1].name = JStr(<<W("read_file")>>)
    /\ Last(messages) =
           Msg("user", ToolResultMessage(tool_log[1].name, tool_log[1].input,
                           ToolRaisedError(tool_log[1].name, tool_log[1].text)))

(***************************************************************************)
(* C29: within one invocation router.chat calls and tool runs never        *)
(* overlap and come in a strict order: a tool is run only when every       *)
(* router.chat call made so far has come back, it is over before the next  *)
(* router.chat call is made, and at most one tool is run between two       *)
(* router.chat calls that follow each other.                               *)
(***************************************************************************)
\* router.chat calls that have come back, with a response or with an error
ChatsBack == Len(responses) + chat_errors

\* at most one call is out, and none while a tool is pending or run_task is over
OneAtATime ==
    /\ pc = "chat" => chat_calls = ChatsBack + 1
    /\ pc # "chat" => chat_calls = ChatsBack

\* each tool ran after some call had come back and with no call out, and no
\* two tools ran after the same call
ToolRunsBetweenCalls ==
    /\ \A i \in 1..Len(tool_log) :
           /\ tool_log[i].returned >= 1
           /\ tool_log[i].calls = tool_log[i].returned
           /\ tool_log[i].returned <= ChatsBack
    /\ \A i, j \in 1..Len(tool_log) :
           i < j => tool_log[i].returned < tool_log[j].returned

\* a call is made only by a step that leaves no tool pending, and a tool
\* becomes pending only by a step in which a call comes back
CallsAndToolsAlternate ==
    /\ chat_calls' > chat_calls => pc' = "chat" /\ chat_calls' = chat_calls + 1
    /\ (pc # "tool" /\ pc' = "tool") =>
           /\ pc = "chat"
           /\ responses' # responses
           /\ chat_calls' = chat_calls
    /\ tool_log' # tool_log /\ runs' = runs =>
           /\ pc = "tool"
           /\ pc' # "tool"
           /\ Len(tool_log') = Len(tool_log) + 1

C29_CallsStrictlyOrdered ==
    [](OneAtATime /\ ToolRunsBetweenCalls) /\ [][CallsAndToolsAlternate]_vars

\* two tools ran in one invocation, the first after the first call came back
\* and the second after the second, and the third call is out
C29_Witness ==
    /\ pc = "chat"
    /\ chat_calls = 3
    /\ Len(tool_log) = 2
    /\ tool_log[1].returned = 1
    /\ tool_log[2].returned = 2

(***************************************************************************)
(* C30: the conversation of an invocation only grows at its end: at every  *)
(* step of run_task the conversation before the step is a prefix of the    *)
(* conversation after it, so that no message, the system message least of  *)
(* all, is edited, moved or removed.                                       *)
(***************************************************************************)
IsPrefix(s, t) == Len(s) <= Len(t) /\ SubSeq(t, 1, Len(s)) = s

C30_AppendOnly == [][runs' = runs => IsPrefix(messages, messages')]_vars

\* a whole budget of three tool calls was spent: the eight messages are the
\* system message, the task, and three responses each followed by its report
C30_Witness ==
    /\ pc = "returned"
    /\ Len(tool_log) = 3
    /\ Len(messages) = 8
    /\ messages[1] = Msg("system", SystemPrompt(tools))
    /\ messages[2].role = "user"
    /\ \A i \in 2..4 : /\ messages[2 * i - 1] = Msg("assistant", responses[i - 1])
                       /\ messages[2 * i].role = "user"

(***************************************************************************)
(* C31: the length of the conversation is a function of the number of      *)
(* router.chat calls: when the k-th call is made (k >= 1) the conversation *)
(* has exactly 2k messages; when run_task returns because of the k-th      *)
(* response it has 2k + 1 messages and ends with an assistant message;     *)
(* when it returns the budget text after N >= 0 calls it has 2N + 2        *)
(* messages and ends with a user message.                                  *)
(***************************************************************************)
C31_LengthFollowsCalls ==
    /\ pc = "chat" =>
           /\ chat_calls >= 1
           /\ Len(messages) = 2 * chat_calls
    /\ (pc = "returned" /\ exit # "max_steps") =>
           /\ chat_calls = Len(responses)
           /\ Len(messages) = 2 * chat_calls + 1
           /\ Last(messages) = Msg("assistant", Last(responses))
    /\ (pc = "returned" /\ exit = "max_steps") =>
           /\ chat_calls = Max0(max_steps)
           /\ Len(messages) = 2 * chat_calls + 2
           /\ Last(messages).role = "user"

\* the third response is the second malformed one, after a tool call in
\* between: seven messages, the last one the assistant's
C31_Witness ==
    /\ pc = "returned"
    /\ exit = "bad_json"
    /\ chat_calls = 3
    /\ Len(tool_log) = 1
    /\ Len(messages) = 7
    /\ Last(messages).role = "assistant"

(***************************************************************************)
(* C32: a ToolCall that comes as the response of the last budgeted         *)
(* router.chat call still has the registered handler run and its result    *)
(* message appended, although no further router.chat call is made and the  *)
(* result is never sent: run_task then returns the budget text.            *)
(***************************************************************************)
\* the tool pending is the one called by the last response the budget allows
LastBudgetedCall == pc = "tool" /\ chat_calls = max_steps

C32_LastCallStillRunsTool ==
    [][LastBudgetedCall =>
           /\ Len(tool_log') = Len(tool_log) + 1
           /\ SubSeq(tool_log', 1, Len(tool_log)) = tool_log
           /\ Last(tool_log').name = tool_name
           /\ Last(tool_log').input = tool_input
           /\ Last(tool_log').calls = max_steps
           /\ Len(messages') = Len(messages) + 1
           /\ SubSeq(messages', 1, Len(messages)) = messages
           /\ Last(messages').role = "user"
           /\ Contains(Last(messages').content, Last(tool_log').text)
           /\ chat_calls' = chat_calls
           /\ responses' = responses
           /\ pc' = "returned"
           /\ exit' = "max_steps"
           /\ result' = MaxStepsMessage]_vars

\* with a budget of one the only response called read_file: the handler ran,
\* its result is the last message and the budget text came back
C32_Witness ==
    /\ max_steps = 1
    /\ pc = "returned"
    /\ exit = "max_steps"
    /\ chat_calls = 1
    /\ Len(tool_log) = 1
    /\ tool_log[1].ok
    /\ Last(messages) =
           Msg("user", ToolResultMessage(tool_log[1].name, tool_log[1].input,
                                         tool_log[1].text))

(***************************************************************************)
(* C33: a tool handler is run only for a response that is a ToolCall with  *)
(* a name of the catalog: none is run for a Malformed, Opaque or           *)
(* FinalAnswer response or for an unknown name, so that the handler runs   *)
(* of an invocation are never more than its router.chat calls nor than the *)
(* step budget.                                                            *)
(***************************************************************************)
\* response k of this invocation calls the registered tool `name`
CallsRegistered(k, name) ==
    /\ k \in 1..Len(responses)
    /\ Decision(responses[k]) = "ToolCall"
    /\ ToolOf(responses[k]) = name
    /\ Registered(tools, name)

C33_OnlyRegisteredCallsRun ==
    /\ \A i \in 1..Len(tool_log) : CallsRegistered(tool_log[i].returned, tool_log[i].name)
    /\ pc = "tool" => CallsRegistered(Len(responses), tool_name)
    /\ Len(tool_log) <= chat_calls
    /\ Len(tool_log) <= Max0(max_steps)

\* three responses, of which only the call of read_file had a handler run: the
\* call of an unknown tool and the final answer had none
C33_Witness ==
    /\ pc = "returned"
    /\ Len(responses) = 3
    /\ Len(tool_log) = 1
    /\ tool_log[1].returned = 2
    /\ Decision(responses[1]) = "ToolCall" /\ ~Registered(tools, ToolOf(responses[1]))
    /\ Decision(responses[3]) = "FinalAnswer"

(***************************************************************************)
(* C34: in one invocation of run_task the corrective "not valid JSON" user *)
(* message is appended at most once and at most two Malformed responses    *)
(* are taken, however many well-formed ToolCall responses come before,     *)
(* between or after them: the second Malformed response of the invocation  *)
(* always ends it.                                                         *)
(***************************************************************************)
\* the Malformed responses of this invocation
MalformedResponses == { i \in 1..Len(responses) : Decision(responses[i]) = "Malformed" }

\* the corrective messages of the conversation
CorrectiveMessages == { i \in 1..Len(messages) : messages[i] = Msg("user", InvalidJsonMessage) }

C34_SecondMalformedEnds ==
    /\ Cardinality(MalformedResponses) <= 2
    /\ Cardinality(CorrectiveMessages) <= 1
    /\ invalid_json_attempts = Cardinality(MalformedResponses)
    /\ Cardinality(MalformedResponses) >= 1 => Cardinality(CorrectiveMessages) = 1
    /\ Cardinality(MalformedResponses) = 2 =>
           /\ Len(responses) \in MalformedResponses
           /\ pc = "returned"
           /\ exit = "bad_json"
           /\ result = Strip(Last(responses))
           /\ Last(messages).role = "assistant"

\* a Malformed response, then a ToolCall whose handler ran, then a second
\* Malformed response: run_task returned with one corrective message sent
C34_Witness ==
    /\ Len(responses) = 3
    /\ MalformedResponses = {1, 3}
    /\ Decision(responses[2]) = "ToolCall"
    /\ Len(tool_log) = 1 /\ tool_log[1].ok
    /\ CorrectiveMessages = {4}
    /\ pc = "returned"

(***************************************************************************)
(* C35: whenever run_task ends with raw text (an Opaque decision or the    *)
(* second Malformed response) the string returned is the last response     *)
(* with its leading and trailing white space removed and nothing else: the *)
(* code-fence lines dropped for parsing are still in it, and the assistant *)
(* message of the conversation is the response as it came, untrimmed.      *)
(***************************************************************************)
\* the return sites of run_task that return `raw`
RawExits == {"bad_json", "not_dict", "raw_no_tool", "raw_no_final_answer"}

\* r is text without the white space at its two ends, and nothing else is gone
TrimmedOf(text, r) ==
    \E i, j \in 0..Len(text) :
        /\ i + j <= Len(text)
        /\ \A k \in 1..i : IsSpace(text[k])
        /\ \A k \in (Len(text) - j + 1)..Len(text) : IsSpace(text[k])
        /\ r = SubSeq(text, i + 1, Len(text) - j)
        /\ r # <<>> => ~IsSpace(r[1]) /\ ~IsSpace(r[Len(r)])

\* the code-fence markers of a text
FencesOf(s) == Cardinality({ k \in 1..Len(s) : s[k] = FENCE })

C35_RawTextOnlyTrimmed ==
    (/\ probe.op \in {"handle", "handle_text"}
     /\ probe.out.kind = "return"
     /\ probe.out.exit \in RawExits) =>
        /\ TrimmedOf(probe.text, probe.out.result)
        /\ FencesOf(probe.out.result) = FencesOf(probe.text)
        /\ Last(probe.out.msgs) = Msg("assistant", probe.text)
        /\ Len(probe.out.msgs) = Len(probe.msgs) + 1

\* a second Malformed response in code fences with white space around: the
\* text returned has both fence lines and no white space at its ends, the
\* assistant message has the white space too
C35_Witness ==
    /\ probe.op = "handle_text"
    /\ probe.attempts = 1
    /\ probe.text = <<NL, FENCE, W("json"), NL, W("oops"), NL, FENCE, SP>>
    /\ probe.out.exit = "bad_json"
    /\ probe.out.result = <<FENCE, W("json"), NL, W("oops"), NL, FENCE>>
    /\ Last(probe.out.msgs).content = probe.text

====
